---------------------------- MODULE Spec2Model ----------------------------
(***************************************************************************)
(* A model of card_game.py: Card, Deck, Player and CardGame.               *)
(*                                                                         *)
(* Five specifications share the variables:                               *)
(*   Spec      a CardGame object: construction, play_card_game (one step   *)
(*             per loop iteration) and show_winner;                        *)
(*   SpecDeck  a Deck object on its own, under any interleaving of         *)
(*             shuffle(), sort() and deal();                               *)
(*   SpecSort  Deck.sort() applied, once and again, to short decks in      *)
(*             every order, next to the game that sorts its deck;          *)
(*   SpecCard  Card.__gt__ and Card.card_value on every pair of the 52     *)
(*             cards;                                                      *)
(*   SpecMain  main() called up to MaxMains times with a player count and  *)
(*             a sort flag.                                                *)
(***************************************************************************)
EXTENDS Integers, Sequences, FiniteSets, TLC

VARIABLES
    pc,                \* "new", "ready", "dealing", "raised" for a CardGame;
                       \* "deck" for a lone Deck; "arranged", "sorted",
                       \* "resorted" in SpecSort; "cards", "compared", "valued"
                       \* in SpecCard; "main", "main_play", "main_show" in
                       \* SpecMain
    error,             \* the exception that ended the program, or "none"
    num_players,       \* CardGame.num_players
    sort_deck,         \* CardGame.sort_deck
    cards_per_player,  \* CardGame.cards_per_player
    players,           \* CardGame.players: a list of Player objects
    the_deck,          \* Deck.the_deck: the list of cards, top of deck first
    current_player,    \* play_card_game's local current_player
    cards_to_deal,     \* play_card_game's local cards_to_deal
    next_card,         \* the value the last deal() returned
    winner_name,       \* the value the last show_winner() returned
    plays,             \* number of play_card_game() calls made
    shuffles,          \* number of shuffle() calls made on a lone Deck
    operands,          \* SpecCard: the Card objects an operation is applied to
    returned,          \* the value returned by the last Card operation, or by main
    stdout             \* the lines main has printed

vars == <<pc, error, num_players, sort_deck, cards_per_player, players, the_deck,
          current_player, cards_to_deal, next_card, winner_name, plays, shuffles,
          operands, returned, stdout>>

(***************************************************************************)
(* Bounds of the model.                                                    *)
(***************************************************************************)
\* random.shuffle is a Fisher-Yates pass: for i = len-1 down to 1 it swaps
\* x[i] with x[j] for a random j in 0..i.  The model lets j be any index at
\* the steps i <= ShuffleWindow and takes j = i (no move) at the steps above,
\* so a shuffle yields every permutation of the top ShuffleWindow+1 cards.
ShuffleWindow == 1
\* play_card_game() calls made on one game.
MaxPlays == 2
\* shuffle() calls made on a lone Deck.
MaxShuffles == 2
\* SpecSort: decks of up to MaxSortLen cards of ranks RankLo..MaxSortRank.
MaxSortLen == 4
MaxSortRank == 3
\* main() calls made in one process.
MaxMains == 3

\* The num_players arguments tried (test_card_game_player_failure / _success).
PlayerCounts == {0, 1, 2, 3, 100}
\* The cards_per_player arguments tried: none, few, the whole deck, too many.
CardsPerPlayerValues == {0, 1, 2, 3, 26, 27}

(***************************************************************************)
(* Python's None and a returned value.                                     *)
(***************************************************************************)
None == <<>>
Some(v) == <<v>>

(***************************************************************************)
(* class Card                                                              *)
(***************************************************************************)
\* The suit weights in the opposite order.
suit_values_reversed == [Spades |-> 4, Diamonds |-> 3, Hearts |-> 2, Clubs |-> 1]

suit_values == [Spades |-> 1, Diamonds |-> 2, Hearts |-> 3, Clubs |-> 4]

Card(rank, suit) ==
    [rank |-> rank, suit |-> suit, suit_sort |-> suit_values[suit]]

\* A value that adds the suit weight instead of multiplying by it.
card_value_sum(c) == c.rank + suit_values[c.suit]

card_value(c) == c.rank * suit_values[c.suit]

\* A comparison that looks at the rank first and at the suit on equal ranks.
CardGt_rank_first(self, other) ==
    IF self.rank = other.rank
    THEN suit_values[self.suit] > suit_values[other.suit]
    ELSE self.rank > other.rank

\* A comparison of the numeric card values.
CardGt_by_value(self, other) ==
    self.rank * suit_values[self.suit] > other.rank * suit_values[other.suit]

CardGt(self, other) ==
    IF self.suit = other.suit
    THEN self.rank > other.rank
    ELSE suit_values[self.suit] > suit_values[other.suit]

(***************************************************************************)
(* class Deck                                                              *)
(***************************************************************************)
suits == <<"Spades", "Diamonds", "Hearts", "Clubs">>
RankLo == 2
RankHi == 15
NumRanks == RankHi - RankLo

\* The deck built with the two loops nested the other way round.
Deck_rank_major ==
    [i \in 1..(Len(suits) * NumRanks) |->
        Card(RankLo + ((i - 1) \div Len(suits)), suits[((i - 1) % Len(suits)) + 1])]

\* Deck.__init__: for suit in suits: for rank in range(2, 15): append.
Deck ==
    [i \in 1..(Len(suits) * NumRanks) |->
        Card(RankLo + ((i - 1) % NumRanks), suits[((i - 1) \div NumRanks) + 1])]

Min(a, b) == IF a < b THEN a ELSE b

\* A swap that writes x[i] and forgets x[j].
SwapLossy(x, i, j) == [x EXCEPT ![i + 1] = x[j + 1]]

\* x[i], x[j] = x[j], x[i] on 0-based indices.
Swap(x, i, j) == [x EXCEPT ![i + 1] = x[j + 1], ![j + 1] = x[i + 1]]

RECURSIVE FisherYates(_, _)
FisherYates(xs, i) ==
    IF i < 1 THEN xs
    ELSE FisherYates({Swap(x, i, j) : x \in xs, j \in 0..i}, i - 1)

\* A shuffle that draws every card of the window afresh, with replacement.
shuffle_with_replacement(d) ==
    LET w == Min(ShuffleWindow, Len(d) - 1) + 1
    IN  {[i \in 1..Len(d) |-> IF i <= w THEN d[f[i]] ELSE d[i]] :
            f \in [1..w -> 1..w]}

\* Deck.shuffle: the decks random.shuffle(self.the_deck) can leave.
shuffle(d) == FisherYates({d}, Min(ShuffleWindow, Len(d) - 1))

\* list.sort(key=attrgetter(attr)) is a stable sort: the elements come out
\* by ascending key, those with the same key in the order they stood in.
RECURSIVE SortedByKeys(_, _, _)
SortedByKeys(s, attr, keys) ==
    IF keys = {} THEN <<>>
    ELSE LET least == CHOOSE k \in keys : \A m \in keys : k <= m
             HasLeast(c) == c[attr] = least
         IN  SelectSeq(s, HasLeast) \o SortedByKeys(s, attr, keys \ {least})

ListSort(s, attr) == SortedByKeys(s, attr, {s[i][attr] : i \in 1..Len(s)})

\* sort by suit alone, by a sort that is not stable: the cards of one suit
\* come out in the reverse of the order they stood in.
sort_by_suit_unstable(d) ==
    ListSort([i \in 1..Len(d) |-> d[Len(d) + 1 - i]], "suit_sort")

\* sort with its two passes in the other order.
sort_suit_then_rank(d) == ListSort(ListSort(d, "suit_sort"), "rank")

\* sort with the second pass left out.
sort_by_rank_only(d) == ListSort(d, "rank")

\* Deck.sort: sort by rank, then by suit_sort.
sort(d) == ListSort(ListSort(d, "rank"), "suit_sort")

\* deal with pop() written for pop(0): the card comes off the bottom.
deal_from_bottom(d) ==
    IF d # <<>>
    THEN [ret |-> Some(d[Len(d)]), the_deck |-> SubSeq(d, 1, Len(d) - 1)]
    ELSE [ret |-> None, the_deck |-> d]

\* A deal that returns the top card and leaves it on the deck.
deal_peek(d) ==
    IF d # <<>>
    THEN [ret |-> Some(Head(d)), the_deck |-> d]
    ELSE [ret |-> None, the_deck |-> d]

\* Deck.deal: the returned value and the deck left.
deal(d) ==
    IF d # <<>>
    THEN [ret |-> Some(Head(d)), the_deck |-> Tail(d)]
    ELSE [ret |-> None, the_deck |-> d]

(***************************************************************************)
(* class Player                                                            *)
(***************************************************************************)
Player(name) ==
    [name |-> "Player " \o ToString(name), cards |-> <<>>, player_score |-> 0]

\* add_card with "=" written for "+=".
add_card_overwrite(self, new_card) ==
    [self EXCEPT !.cards = Append(@, new_card),
                 !.player_score = card_value(new_card)]

add_card(self, new_card) ==
    [self EXCEPT !.cards = Append(@, new_card),
                 !.player_score = @ + card_value(new_card)]

\* __gt__ with ">=" written for ">".
PlayerGe(self, other) == self.player_score >= other.player_score

PlayerGt(self, other) == self.player_score > other.player_score

(***************************************************************************)
(* class CardGame                                                          *)
(***************************************************************************)
GAME_PLAYERS_REQUIRED == 2

\* The test with "<" written for "!=".
InvalidPlayerCountBelow(n) == n < GAME_PLAYERS_REQUIRED

\* CardGame.__init__: the test that rejects the player count.
InvalidPlayerCount(n) == n # GAME_PLAYERS_REQUIRED

\* CardGame.__init__: the players list built when the count is accepted.
NewPlayers(n) == [i \in 1..n |-> Player(i)]

\* Before the constructor runs.
Init ==
    /\ pc = "new"
    /\ error = "none"
    /\ num_players = 0
    /\ sort_deck = FALSE
    /\ cards_per_player = 0
    /\ players = <<>>
    /\ the_deck = <<>>
    /\ current_player = 0
    /\ cards_to_deal = 0
    /\ next_card = None
    /\ winner_name = None
    /\ plays = 0
    /\ shuffles = 0
    /\ operands = <<>>
    /\ returned = None
    /\ stdout = <<>>

\* CardGame(n, s, c)
CardGameInit(n, s, c) ==
    /\ pc = "new"
    /\ num_players' = n
    /\ sort_deck' = s
    /\ cards_per_player' = c
    /\ IF InvalidPlayerCount(n)
       THEN /\ players' = <<>>
            /\ error' = "ValueError"
            /\ pc' = "raised"
       ELSE /\ players' = NewPlayers(n)
            /\ error' = error
            /\ pc' = "ready"
    /\ UNCHANGED <<the_deck, current_player, cards_to_deal, next_card,
                   winner_name, plays, shuffles,
                   operands, returned, stdout>>

\* The advance of current_player left out.
NextPlayerStuck(cur, n) == cur

\* play_card_game: the player the next card goes to.
NextPlayer(cur, n) == (cur + 1) % n

\* A play_card_game that starts by giving every player an empty hand.
PlayBeginClearsHands ==
    /\ pc = "ready"
    /\ plays < MaxPlays
    /\ \E shuffled \in shuffle(Deck) :
          the_deck' = IF sort_deck THEN sort(shuffled) ELSE shuffled
    /\ players' = [i \in 1..Len(players) |->
                      [players[i] EXCEPT !.cards = <<>>, !.player_score = 0]]
    /\ current_player' = 0
    /\ cards_to_deal' = num_players * cards_per_player
    /\ plays' = plays + 1
    /\ pc' = "dealing"
    /\ UNCHANGED <<error, num_players, sort_deck, cards_per_player,
                   next_card, winner_name, shuffles,
                   operands, returned, stdout>>

\* play_card_game, up to the loop: a new deck, shuffled, sorted on request.
PlayBegin ==
    /\ pc = "ready"
    /\ plays < MaxPlays
    /\ \E shuffled \in shuffle(Deck) :
          the_deck' = IF sort_deck THEN sort(shuffled) ELSE shuffled
    /\ current_player' = 0
    /\ cards_to_deal' = num_players * cards_per_player
    /\ plays' = plays + 1
    /\ pc' = "dealing"
    /\ UNCHANGED <<error, num_players, sort_deck, cards_per_player, players,
                   next_card, winner_name, shuffles,
                   operands, returned, stdout>>

\* One pass of the loop that deals a card to the current player.
PlayDeal ==
    /\ pc = "dealing"
    /\ cards_to_deal > 0
    /\ deal(the_deck).ret # None
    /\ current_player < Len(players)
    /\ next_card' = deal(the_deck).ret
    /\ the_deck' = deal(the_deck).the_deck
    /\ players' = [players EXCEPT ![current_player + 1] =
                      add_card(@, Head(deal(the_deck).ret))]
    /\ current_player' = NextPlayer(current_player, num_players)
    /\ cards_to_deal' = cards_to_deal - 1
    /\ UNCHANGED <<pc, error, num_players, sort_deck, cards_per_player,
                   winner_name, plays, shuffles,
                   operands, returned, stdout>>

\* The pass in which deal() returns None: break.
PlayBreak ==
    /\ pc = "dealing"
    /\ cards_to_deal > 0
    /\ deal(the_deck).ret = None
    /\ next_card' = None
    /\ the_deck' = deal(the_deck).the_deck
    /\ pc' = "ready"
    /\ UNCHANGED <<error, num_players, sort_deck, cards_per_player, players,
                   current_player, cards_to_deal, winner_name, plays, shuffles,
                   operands, returned, stdout>>

\* The loop condition fails: play_card_game returns.
PlayReturn ==
    /\ pc = "dealing"
    /\ cards_to_deal <= 0
    /\ pc' = "ready"
    /\ UNCHANGED <<error, num_players, sort_deck, cards_per_player, players,
                   the_deck, current_player, cards_to_deal, next_card,
                   winner_name, plays, shuffles,
                   operands, returned, stdout>>

\* A card was dealt but self.players[current_player] does not exist.
PlayIndexError ==
    /\ pc = "dealing"
    /\ cards_to_deal > 0
    /\ deal(the_deck).ret # None
    /\ current_player >= Len(players)
    /\ next_card' = deal(the_deck).ret
    /\ the_deck' = deal(the_deck).the_deck
    /\ error' = "IndexError"
    /\ pc' = "raised"
    /\ UNCHANGED <<num_players, sort_deck, cards_per_player, players,
                   current_player, cards_to_deal, winner_name, plays, shuffles,
                   operands, returned, stdout>>

\* show_winner's loop: winner is the player held so far, rest the list left.
RECURSIVE show_winner_loop(_, _)
show_winner_loop(winner, rest) ==
    IF rest = <<>> THEN winner
    ELSE show_winner_loop(IF PlayerGt(Head(rest), winner) THEN Head(rest) ELSE winner,
                          Tail(rest))

\* show_winner: the name returned and the players list left behind.
show_winner(ps) ==
    [ret |-> Some(show_winner_loop(Head(ps), Tail(ps)).name), players |-> <<>>]

ShowWinner ==
    /\ pc = "ready"
    /\ players # <<>>
    /\ winner_name' = show_winner(players).ret
    /\ players' = show_winner(players).players
    /\ UNCHANGED <<pc, error, num_players, sort_deck, cards_per_player, the_deck,
                   current_player, cards_to_deal, next_card, plays, shuffles,
                   operands, returned, stdout>>

\* show_winner on an empty players list: self.players.pop(0) raises.
ShowWinnerIndexError ==
    /\ pc = "ready"
    /\ players = <<>>
    /\ error' = "IndexError"
    /\ pc' = "raised"
    /\ UNCHANGED <<num_players, sort_deck, cards_per_player, players, the_deck,
                   current_player, cards_to_deal, next_card, winner_name, plays,
                   shuffles,
                   operands, returned, stdout>>

Next ==
    \/ \E n \in PlayerCounts, s \in BOOLEAN, c \in CardsPerPlayerValues :
          CardGameInit(n, s, c)
    \/ PlayBegin
    \/ PlayDeal
    \/ PlayBreak
    \/ PlayReturn
    \/ PlayIndexError
    \/ ShowWinner
    \/ ShowWinnerIndexError

Spec == Init /\ [][Next]_vars

(***************************************************************************)
(* A Deck object on its own: deck = Deck(), then shuffle(), sort() and     *)
(* deal() in any order.                                                    *)
(***************************************************************************)
DeckInit ==
    /\ pc = "deck"
    /\ error = "none"
    /\ num_players = 0
    /\ sort_deck = FALSE
    /\ cards_per_player = 0
    /\ players = <<>>
    /\ the_deck = Deck
    /\ current_player = 0
    /\ cards_to_deal = 0
    /\ next_card = None
    /\ winner_name = None
    /\ plays = 0
    /\ shuffles = 0
    /\ operands = <<>>
    /\ returned = None
    /\ stdout = <<>>

DeckShuffle ==
    /\ pc = "deck"
    /\ shuffles < MaxShuffles
    /\ the_deck' \in shuffle(the_deck)
    /\ shuffles' = shuffles + 1
    /\ UNCHANGED <<pc, error, num_players, sort_deck, cards_per_player, players,
                   current_player, cards_to_deal, next_card, winner_name, plays,
                   operands, returned, stdout>>

DeckSort ==
    /\ pc = "deck"
    /\ the_deck' = sort(the_deck)
    /\ UNCHANGED <<pc, error, num_players, sort_deck, cards_per_player, players,
                   current_player, cards_to_deal, next_card, winner_name, plays,
                   shuffles,
                   operands, returned, stdout>>

DeckDeal ==
    /\ pc = "deck"
    /\ next_card' = deal(the_deck).ret
    /\ the_deck' = deal(the_deck).the_deck
    /\ UNCHANGED <<pc, error, num_players, sort_deck, cards_per_player, players,
                   current_player, cards_to_deal, winner_name, plays, shuffles,
                   operands, returned, stdout>>

DeckNext ==
    \/ DeckShuffle
    \/ DeckSort
    \/ DeckDeal

SpecDeck == DeckInit /\ [][DeckNext]_vars

(***************************************************************************)
(* Deck.sort() on what shuffle() and deal() can leave of a deck: up to     *)
(* MaxSortLen of the cards of ranks RankLo..MaxSortRank, in every order.   *)
(***************************************************************************)
SortCards == {Card(r, suits[k]) : r \in RankLo..MaxSortRank, k \in 1..Len(suits)}

Arrangements ==
    {d \in UNION {[1..n -> SortCards] : n \in 0..MaxSortLen} :
        \A i, j \in 1..Len(d) : i # j => d[i] # d[j]}

SortInit ==
    /\ pc = "arranged"
    /\ error = "none"
    /\ num_players = 0
    /\ sort_deck = FALSE
    /\ cards_per_player = 0
    /\ players = <<>>
    /\ the_deck \in Arrangements
    /\ current_player = 0
    /\ cards_to_deal = 0
    /\ next_card = None
    /\ winner_name = None
    /\ plays = 0
    /\ shuffles = 0
    /\ operands = <<>>
    /\ returned = None
    /\ stdout = <<>>

SortArranged ==
    /\ pc = "arranged"
    /\ the_deck' = sort(the_deck)
    /\ pc' = "sorted"
    /\ UNCHANGED <<error, num_players, sort_deck, cards_per_player, players,
                   current_player, cards_to_deal, next_card, winner_name, plays,
                   shuffles,
                   operands, returned, stdout>>

\* sort() called again on the deck sort() has left.
SortAgain ==
    /\ pc \in {"sorted", "resorted"}
    /\ the_deck' = sort(the_deck)
    /\ pc' = "resorted"
    /\ UNCHANGED <<error, num_players, sort_deck, cards_per_player, players,
                   current_player, cards_to_deal, next_card, winner_name, plays,
                   shuffles, operands, returned, stdout>>

SortSpecInit == Init \/ SortInit

SortNext ==
    \/ SortArranged
    \/ SortAgain
    \/ Next

SpecSort == SortSpecInit /\ [][SortNext]_vars

(***************************************************************************)
(* Card objects on their own: two cards a, b of the 52, then a > b or      *)
(* a.card_value.                                                           *)
(***************************************************************************)
AllCards == {Card(r, suits[k]) : r \in RankLo..(RankHi - 1), k \in 1..Len(suits)}

CardInit ==
    /\ pc = "cards"
    /\ error = "none"
    /\ num_players = 0
    /\ sort_deck = FALSE
    /\ cards_per_player = 0
    /\ players = <<>>
    /\ the_deck = <<>>
    /\ current_player = 0
    /\ cards_to_deal = 0
    /\ next_card = None
    /\ winner_name = None
    /\ plays = 0
    /\ shuffles = 0
    /\ operands \in {<<a, b>> : a \in AllCards, b \in AllCards}
    /\ returned = None
    /\ stdout = <<>>

\* operands[1] > operands[2]
CardCompare ==
    /\ pc = "cards"
    /\ returned' = Some(CardGt(operands[1], operands[2]))
    /\ pc' = "compared"
    /\ UNCHANGED <<error, num_players, sort_deck, cards_per_player, players,
                   the_deck, current_player, cards_to_deal, next_card,
                   winner_name, plays, shuffles, operands, stdout>>

\* operands[1].card_value
CardValue ==
    /\ pc = "cards"
    /\ returned' = Some(card_value(operands[1]))
    /\ pc' = "valued"
    /\ UNCHANGED <<error, num_players, sort_deck, cards_per_player, players,
                   the_deck, current_player, cards_to_deal, next_card,
                   winner_name, plays, shuffles, operands, stdout>>

CardNext ==
    \/ CardCompare
    \/ CardValue

SpecCard == CardInit /\ [][CardNext]_vars

(***************************************************************************)
(* main(): parse num_players and --sort, construct the game, play it, show *)
(* the winner.                                                             *)
(***************************************************************************)
\* The num_players arguments tried (test_main_success / _failure).
MainPlayerCounts == PlayerCounts \cup {4}

\* CardGame.__init__: cards_per_player=3.
DEFAULT_CARDS_PER_PLAYER == 3

\* main falls off its end after the except clause, where it should return 0.
MainReturnsNothing == None

\* main: return 0
MainReturn == Some(0)

\* print("Game over. %s\n\n" % exception)
GameOverLine == "Game over. Incorrect player count specified.\n\n"

\* print("%s wins!" % (game.show_winner()))
WinsLine(name) == name \o " wins!"

\* The loop of play_card_game run to its end: the players and the deck left.
RECURSIVE DealLoop(_, _, _, _, _)
DealLoop(ps, d, current, todo, n) ==
    IF todo <= 0 THEN [players |-> ps, the_deck |-> d]
    ELSE IF deal(d).ret = None THEN [players |-> ps, the_deck |-> deal(d).the_deck]
    ELSE DealLoop([ps EXCEPT ![current + 1] = add_card(@, Head(deal(d).ret))],
                  deal(d).the_deck, NextPlayer(current, n), todo - 1, n)

MainInit ==
    /\ pc = "main"
    /\ error = "none"
    /\ num_players = 0
    /\ sort_deck = FALSE
    /\ cards_per_player = 0
    /\ players = <<>>
    /\ the_deck = <<>>
    /\ current_player = 0
    /\ cards_to_deal = 0
    /\ next_card = None
    /\ winner_name = None
    /\ plays = 0
    /\ shuffles = 0
    /\ operands = <<>>
    /\ returned = None
    /\ stdout = <<>>

\* main up to the try statement: CardGame(args.num_players, args.sort); on
\* ValueError the message is printed and main returns without a value.
MainConstruct(n, s) ==
    /\ pc = "main"
    /\ Len(stdout) < MaxMains
    /\ num_players' = n
    /\ sort_deck' = s
    /\ cards_per_player' = DEFAULT_CARDS_PER_PLAYER
    /\ the_deck' = <<>>
    /\ winner_name' = None
    /\ IF InvalidPlayerCount(n)
       THEN /\ players' = <<>>
            /\ stdout' = Append(stdout, GameOverLine)
            /\ returned' = None
            /\ pc' = "main"
       ELSE /\ players' = NewPlayers(n)
            /\ stdout' = stdout
            /\ returned' = returned
            /\ pc' = "main_play"
    /\ UNCHANGED <<error, current_player, cards_to_deal, next_card, plays,
                   shuffles, operands>>

\* main: game.play_card_game(), the whole call.
MainPlay ==
    /\ pc = "main_play"
    /\ \E shuffled \in shuffle(Deck) :
          LET deck == IF sort_deck THEN sort(shuffled) ELSE shuffled
              left == DealLoop(players, deck, 0, num_players * cards_per_player,
                               num_players)
          IN  /\ players' = left.players
              /\ the_deck' = left.the_deck
    /\ plays' = plays + 1
    /\ pc' = "main_show"
    /\ UNCHANGED <<error, num_players, sort_deck, cards_per_player,
                   current_player, cards_to_deal, next_card, winner_name,
                   shuffles, operands, returned, stdout>>

\* main: print("%s wins!" % (game.show_winner())); return 0
MainShowWinner ==
    /\ pc = "main_show"
    /\ winner_name' = show_winner(players).ret
    /\ players' = show_winner(players).players
    /\ stdout' = Append(stdout, WinsLine(Head(show_winner(players).ret)))
    /\ returned' = MainReturn
    /\ pc' = "main"
    /\ UNCHANGED <<error, num_players, sort_deck, cards_per_player, the_deck,
                   current_player, cards_to_deal, next_card, plays, shuffles,
                   operands>>

MainNext ==
    \/ \E n \in MainPlayerCounts, s \in BOOLEAN : MainConstruct(n, s)
    \/ MainPlay
    \/ MainShowWinner

SpecMain == MainInit /\ [][MainNext]_vars

(***************************************************************************)
(* The claims.                                                             *)
(***************************************************************************)
\* The sum of card_value over cards[lo..hi].
RECURSIVE HandValue(_, _, _)
HandValue(cards, lo, hi) ==
    IF lo > hi THEN 0
    ELSE IF lo = hi THEN cards[lo].rank * suit_values[cards[lo].suit]
    ELSE LET mid == (lo + hi) \div 2
         IN  HandValue(cards, lo, mid) + HandValue(cards, mid + 1, hi)

Hand(i) == players[i].cards
PlayersIntact == Len(players) = 2
Spade(r) == [rank |-> r, suit |-> "Spades", suit_sort |-> 1]

\* C1: show_winner leaves the game as it found it: after it returns, the
\* game holds the same two players in the same order, each with the same
\* hand and score as before the call.
C1_ShowWinnerKeepsPlayers == [][ShowWinner => players' = players]_vars

\* C2: in a game built with 2 players, sort_deck = TRUE and cards_per_player
\* = 3, after the first play_card_game() and whatever the shuffle did,
\* Player 1 holds Spades 2, 4, 6 (score 12), Player 2 holds Spades 3, 5, 7
\* (score 15), and show_winner returns "Player 2".
C2_SortedGameOutcome ==
    (pc = "ready" /\ plays = 1 /\ sort_deck /\ cards_per_player = 3) =>
        /\ PlayersIntact =>
              /\ players[1].name = "Player 1"
              /\ Hand(1) = <<Spade(2), Spade(4), Spade(6)>>
              /\ players[1].player_score = 12
              /\ players[2].name = "Player 2"
              /\ Hand(2) = <<Spade(3), Spade(5), Spade(7)>>
              /\ players[2].player_score = 15
        /\ winner_name \in {None, Some("Player 2")}
        /\ PlayersIntact \/ winner_name = Some("Player 2")

C2_Witness ==
    /\ pc = "ready" /\ plays = 1 /\ sort_deck /\ cards_per_player = 3
    /\ winner_name = Some("Player 2")

C3_ScoreInvariant ==
    \A i \in 1..Len(players) :
        players[i].player_score = HandValue(Hand(i), 1, Len(Hand(i)))

C3_AddCardEffect ==
    PlayDeal =>
        LET card == Head(the_deck)
            i == current_player + 1
        IN  /\ players'[i].cards = Hand(i) \o <<card>>
            /\ players'[i].player_score =
                   players[i].player_score + card.rank * suit_values[card.suit]
            /\ players'[i].name = players[i].name
            /\ \A k \in 1..Len(players) : k # i => players'[k] = players[k]

\* C3: in every reachable state each player's score is the sum of
\* rank * suit weight over the cards of the player's hand, and the pass of
\* the loop that deals a card appends it to the current player's hand and
\* raises that player's score by the card's value, leaving the other player
\* alone.
C3_ScoreIsHandValue == []C3_ScoreInvariant /\ [][C3_AddCardEffect]_vars

C3_Witness ==
    /\ plays = 2 /\ pc = "ready" /\ PlayersIntact
    /\ Len(Hand(1)) = 52
    /\ \E k \in 1..Len(Hand(2)) : Hand(2)[k].suit # "Spades"

C4_ConstructorStep ==
    (pc = "new" /\ pc' # "new") =>
        /\ (pc' = "raised" /\ error' = "ValueError") <=> (num_players' # 2)
        /\ (num_players' = 2) =>
              /\ pc' = "ready"
              /\ error' = "none"
              /\ players' = << [name |-> "Player 1", cards |-> <<>>, player_score |-> 0],
                                [name |-> "Player 2", cards |-> <<>>, player_score |-> 0] >>

\* C4: the constructor fails with ValueError exactly when the requested
\* player count is not 2; with a count of 2 it succeeds and the game holds
\* exactly two players, "Player 1" and "Player 2" in that order, each with
\* an empty hand and score 0.
C4_ConstructionOutcome == [][C4_ConstructorStep]_vars

C4_Witness == pc = "raised" /\ error = "ValueError" /\ num_players = 100

C5_Balance ==
    (plays = 1 /\ PlayersIntact) =>
        /\ Len(Hand(1)) - Len(Hand(2)) \in {0, 1}
        /\ (pc = "ready" /\ cards_per_player <= 26) =>
              /\ Len(Hand(1)) = cards_per_player
              /\ Len(Hand(2)) = cards_per_player
              /\ Len(the_deck) = 52 - 2 * cards_per_player

C5_KthCard ==
    (PlayDeal /\ plays = 1) =>
        LET k == (52 - Len(the_deck)) + 1
            i == ((k - 1) % 2) + 1
        IN  /\ k = Len(Hand(1)) + Len(Hand(2)) + 1
            /\ players'[i].cards = Hand(i) \o <<the_deck[1]>>
            /\ players'[3 - i].cards = Hand(3 - i)

\* C5: during the first play_card_game() of a game the k-th card taken from
\* the deck goes to player index (k-1) mod 2, so Player 1's hand is as long
\* as Player 2's or one card longer; and when cards_per_player <= 26 the
\* call ends with cards_per_player cards in each hand and
\* 52 - 2*cards_per_player cards in the deck.
C5_RoundRobin == []C5_Balance /\ [][C5_KthCard]_vars

C5_Witness ==
    /\ plays = 1 /\ pc = "dealing" /\ PlayersIntact
    /\ Len(Hand(1)) = 2 /\ Len(Hand(2)) = 1
    /\ Hand(1)[1] # Spade(2)

\* C6: play_card_game() always ends without raising an error, whatever
\* cards_per_player is; when 2*cards_per_player exceeds 52 the first play of
\* a game ends with an empty deck and 26 cards in each hand.
C6_PlayNeverRaises ==
    /\ plays > 0 => (error = "none" /\ pc \in {"dealing", "ready"})
    /\ (pc = "ready" /\ plays = 1 /\ 2 * cards_per_player > 52 /\ PlayersIntact) =>
          /\ the_deck = <<>>
          /\ Len(Hand(1)) = 26
          /\ Len(Hand(2)) = 26

\* C6, on a game that still holds its two players: play_card_game() does
\* not raise, each pass of its loop lowers cards_to_deal or leaves the loop,
\* and a play asked for more than 52 cards ends with the deck empty and 26
\* cards in each hand.
C6_IntactInvariant ==
    /\ (pc = "dealing" /\ PlayersIntact) =>
          /\ error = "none"
          /\ cards_to_deal >= 0
          /\ ENABLED (PlayDeal \/ PlayBreak \/ PlayReturn)
          /\ ~ ENABLED PlayIndexError
    /\ (pc = "ready" /\ plays = 1 /\ 2 * cards_per_player > 52 /\ PlayersIntact) =>
          /\ error = "none"
          /\ next_card = None
          /\ the_deck = <<>>
          /\ Len(Hand(1)) = 26
          /\ Len(Hand(2)) = 26

C6_IntactWitness ==
    /\ pc = "ready" /\ plays = 1 /\ cards_per_player = 27 /\ PlayersIntact
    /\ the_deck = <<>> /\ next_card = None

C7_WinnerStep ==
    ShowWinner =>
        LET s1 == players[1].player_score
            s2 == players[2].player_score
        IN  /\ PlayersIntact
            /\ players[1].name = "Player 1" /\ players[2].name = "Player 2"
            /\ s1 > s2 => winner_name' = Some("Player 1")
            /\ s2 > s1 => winner_name' = Some("Player 2")
            /\ s1 = s2 => winner_name' = Some("Player 1")

\* C7: show_winner returns the name of the player whose score is strictly
\* higher than the other's and, when the two scores are equal, "Player 1";
\* for every pair of hands play_card_game() leaves.
C7_WinnerIsStrictlyHigher == [][C7_WinnerStep]_vars

\* show_winner has returned "Player 1" after one play of two cards each:
\* the deck began S3 S2 S4 S5 or S2 S3 S4 S5, and only the former, a tie of
\* 7 to 7, gives "Player 1".
C7_Witness ==
    /\ pc = "ready" /\ plays = 1 /\ cards_per_player = 2 /\ ~sort_deck
    /\ next_card = Some(Spade(5))
    /\ winner_name = Some("Player 1")

C8_DealStep ==
    DeckDeal =>
        IF the_deck # <<>>
        THEN /\ next_card' = Some(the_deck[1])
             /\ Len(the_deck') = Len(the_deck) - 1
             /\ \A i \in 1..Len(the_deck') : the_deck'[i] = the_deck[i + 1]
        ELSE /\ next_card' = None
             /\ Len(the_deck') = 0

C8_FreshOrder ==
    shuffles = 0 =>
        LET dealt == 52 - Len(the_deck)
        IN  /\ \A i \in 1..Len(the_deck) : the_deck[i] = Deck[dealt + i]
            /\ next_card # None => next_card = Some(Deck[dealt])
            /\ next_card = None => dealt \in {0, 52}

\* C8: deal() on a non-empty deck returns the card at index 0 and leaves the
\* other cards in their order, one card fewer; dealt from without a shuffle,
\* a new deck gives its cards in construction order; deal() on an empty deck
\* returns None and leaves the deck empty.
C8_DealFromTop == []C8_FreshOrder /\ [][C8_DealStep]_vars

C8_Witness == shuffles = 0 /\ the_deck = <<>> /\ next_card = None

C9_DeckInvariant ==
    /\ \A i, j \in 1..Len(the_deck) :
          (the_deck[i].rank = the_deck[j].rank /\ the_deck[i].suit = the_deck[j].suit)
              => i = j
    /\ Len(the_deck) \in 0..52

C9_SizeStep ==
    /\ Len(the_deck') <= Len(the_deck)
    /\ (DeckShuffle \/ DeckSort) => Len(the_deck') = Len(the_deck)
    /\ Len(the_deck') # Len(the_deck) =>
          (DeckDeal /\ next_card' # None /\ Len(the_deck') = Len(the_deck) - 1)
    /\ (DeckDeal /\ next_card' # None) => Len(the_deck') = Len(the_deck) - 1

\* C9: under any interleaving of shuffle(), sort() and deal() on a new deck
\* no (rank, suit) pair occurs twice and the size is in 0..52; the size
\* never grows, shuffle() and sort() leave it alone, and it changes only by
\* a deal() that returns a card, by exactly one.
C9_NoDuplicatesSizeShrinks == []C9_DeckInvariant /\ [][C9_SizeStep]_vars

C9_Witness ==
    /\ shuffles >= 1 /\ Len(the_deck) = 50 /\ next_card # None
    /\ the_deck[1].rank > the_deck[2].rank

\* The position of a suit in the order Spades, Diamonds, Hearts, Clubs.
SuitPlace(suit) ==
    CHOOSE k \in 1..4 : <<"Spades", "Diamonds", "Hearts", "Clubs">>[k] = suit

KeyLess(a, b) ==
    \/ SuitPlace(a.suit) < SuitPlace(b.suit)
    \/ (a.suit = b.suit /\ a.rank < b.rank)

Ordered(d) ==
    \A i \in 2..Len(d) : KeyLess(d[i - 1], d[i]) /\ CardGt(d[i], d[i - 1])

\* One stable sort of d on the key (suit weight, rank).
OneKeySort(d) ==
    LET before(j, i) ==
            \/ KeyLess(d[j], d[i])
            \/ (~KeyLess(d[i], d[j]) /\ j <= i)
        pos == [i \in 1..Len(d) |-> Cardinality({j \in 1..Len(d) : before(j, i)})]
    IN  [p \in 1..Len(d) |-> d[CHOOSE i \in 1..Len(d) : pos[i] = p]]

C10_SortStep ==
    SortArranged =>
        /\ Ordered(the_deck')
        /\ the_deck' = OneKeySort(the_deck)
        /\ Len(the_deck') = Len(the_deck)
        /\ {the_deck'[i] : i \in 1..Len(the_deck')} = {the_deck[i] : i \in 1..Len(the_deck)}

C10_PlayStep ==
    (PlayBegin /\ sort_deck) => (the_deck' = Deck /\ Ordered(the_deck'))

\* C10: sort() leaves a deck in any order, of any cards left, ordered by
\* suit (Spades, Diamonds, Hearts, Clubs) and by rank within a suit, each
\* card greater than the one before it under Card.__gt__; the result is
\* that of one stable sort on the key (suit weight, rank); and with the sort
\* flag set play_card_game() deals from the same deck order whatever the
\* shuffle did.
C10_SortOrdersDeck == [][C10_SortStep /\ C10_PlayStep]_vars

C10_Witness ==
    /\ pc = "sorted" /\ Len(the_deck) = 4
    /\ the_deck[1].suit = the_deck[2].suit
    /\ the_deck[2].suit # the_deck[3].suit
    /\ the_deck[4].suit = "Clubs"

\* C11: sort() is idempotent: called again right after sort(), it leaves the
\* cards in exactly the order the first call left them in.
C11_SortIdempotent == [][SortAgain => the_deck' = the_deck]_vars

C11_Witness ==
    /\ pc = "resorted" /\ Len(the_deck) = 4
    /\ the_deck[1].suit # the_deck[4].suit
    /\ the_deck[1].suit = the_deck[2].suit

CardSet(d) == {d[i] : i \in 1..Len(d)}

C12_ShuffleStep ==
    [][DeckShuffle => /\ Len(the_deck') = Len(the_deck)
                      /\ CardSet(the_deck') = CardSet(the_deck)]_vars

C12_SortStep ==
    [][DeckSort => /\ Len(the_deck') = Len(the_deck)
                   /\ CardSet(the_deck') = CardSet(the_deck)]_vars

\* C12: shuffle() only permutes the deck, and so does sort(): the deck holds
\* the same set of cards, and as many of them, before and after the call.
C12_OnlyPermutes == C12_ShuffleStep /\ C12_SortStep

C12_Witness ==
    /\ pc = "deck" /\ shuffles >= 1
    /\ Len(the_deck) = 51
    /\ the_deck # sort(the_deck)
    /\ CardSet(the_deck) \subseteq CardSet(Deck)

\* A Deck nothing has been shuffled in or dealt from: deal() has returned no
\* card yet, and not because the cards ran out.
NewDeck == pc = "deck" /\ shuffles = 0 /\ next_card = None /\ the_deck # <<>>

C13_Layout ==
    /\ Len(the_deck) = 52
    /\ \A k \in 1..4 : \A r \in 2..14 :
          the_deck[13 * (k - 1) + (r - 1)] =
              Card(r, <<"Spades", "Diamonds", "Hearts", "Clubs">>[k])
    /\ Cardinality(CardSet(the_deck)) = 52
    /\ \A i \in 1..52 : the_deck[i].suit_sort = suit_values[the_deck[i].suit]

\* C13: a new deck holds 52 cards, every combination of the four suits and
\* the ranks 2..14 exactly once, grouped by suit in the order Spades,
\* Diamonds, Hearts, Clubs and ascending by rank within a suit; it is already
\* in the order sort() produces.
C13_NewDeck == NewDeck => (C13_Layout /\ sort(the_deck) = the_deck)

C13_Witness ==
    /\ NewDeck
    /\ the_deck[1] = Card(2, "Spades") /\ the_deck[13] = Card(14, "Spades")
    /\ the_deck[14] = Card(2, "Diamonds") /\ the_deck[52] = Card(14, "Clubs")

\* The suit weight as the specification tables it.
Weight(suit) ==
    CASE suit = "Spades" -> 1
      [] suit = "Diamonds" -> 2
      [] suit = "Hearts" -> 3
      [] suit = "Clubs" -> 4

Compared(a, b) == pc = "compared" /\ operands = <<a, b>>

C14_Rule ==
    pc = "compared" =>
        LET a == operands[1]
            b == operands[2]
        IN  /\ a.suit = b.suit => returned = Some(a.rank > b.rank)
            /\ a.suit # b.suit => returned = Some(Weight(a.suit) > Weight(b.suit))
            /\ (a.suit = "Diamonds" /\ b.suit = "Spades") => returned = Some(TRUE)

C14_Examples ==
    /\ Compared(Card(4, "Hearts"), Card(5, "Diamonds")) => returned = Some(TRUE)
    /\ Compared(Card(3, "Hearts"), Card(2, "Hearts")) => returned = Some(TRUE)

\* C14: for all cards a, b of legal rank and suit: of the same suit, a > b
\* exactly when rank(a) > rank(b); of different suits, a > b exactly when the
\* suit weight of a is greater than that of b, whatever the ranks (any Diamond
\* is greater than any Spade; Card(4,Hearts) > Card(5,Diamonds);
\* Card(3,Hearts) > Card(2,Hearts)).
C14_CardGreaterThan == C14_Rule /\ C14_Examples

C14_Witness ==
    /\ Compared(Card(2, "Diamonds"), Card(14, "Spades"))
    /\ returned = Some(TRUE)

\* C15 as stated: Card(14, Spades) > Card(14, Clubs) evaluates to true.
C15_SpadesAceGreater ==
    Compared(Card(14, "Spades"), Card(14, "Clubs")) => returned = Some(TRUE)

\* C15, amended: Card(14, Clubs) > Card(14, Spades) evaluates to true, and
\* Card(14, Spades) > Card(14, Clubs) evaluates to false (Clubs weighs 4,
\* Spades 1).
C15_ClubsAceGreater ==
    /\ Compared(Card(14, "Clubs"), Card(14, "Spades")) => returned = Some(TRUE)
    /\ Compared(Card(14, "Spades"), Card(14, "Clubs")) => returned = Some(FALSE)

C15_Witness ==
    /\ Compared(Card(14, "Spades"), Card(14, "Clubs"))
    /\ returned = Some(FALSE)

\* Neither card is greater than the other.
Incomparable(a, b) == ~CardGt(a, b) /\ ~CardGt(b, a)

C16_StrictWeakOrder ==
    pc = "compared" =>
        LET a == operands[1]
            b == operands[2]
        IN  /\ a = b => returned = Some(FALSE)
            /\ returned = Some(TRUE) => ~CardGt(b, a)
            /\ returned = Some(TRUE) =>
                  \A c \in AllCards : CardGt(b, c) => CardGt(a, c)
            /\ (returned = Some(FALSE) /\ ~CardGt(b, a)) =>
                  \A c \in AllCards : Incomparable(b, c) => Incomparable(a, c)

C16_NotByValue ==
    Compared(Card(2, "Clubs"), Card(14, "Hearts")) =>
        /\ returned = Some(TRUE)
        /\ card_value(operands[1]) < card_value(operands[2])

\* C16: Card greater-than is a strict weak ordering over the 52 cards:
\* irreflexive, asymmetric, transitive, and with transitive incomparability;
\* and it is not the ordering by numeric card value: there are cards a, b with
\* a > b although value(a) < value(b).
C16_Ordering == C16_StrictWeakOrder /\ C16_NotByValue

C16_Witness ==
    /\ Compared(Card(2, "Clubs"), Card(14, "Hearts"))
    /\ returned = Some(TRUE)
    /\ card_value(operands[1]) = 8 /\ card_value(operands[2]) = 42

Valued(c) == pc = "valued" /\ operands[1] = c

C17_Value ==
    /\ pc = "valued" =>
          /\ operands[1].rank \in 2..14
          /\ returned = Some(operands[1].rank * Weight(operands[1].suit))
    /\ Valued(Card(2, "Clubs")) => returned = Some(8)
    /\ Valued(Card(2, "Spades")) => returned = Some(2)

\* A step of CardValue is a step from "cards" to "valued".
C17_ReadOnly ==
    [][(pc = "cards" /\ pc' = "valued") => operands' = operands]_vars

\* C17: for every rank r in 2..14 and every suit s the value of Card(r, s) is
\* r times the suit weight of s, with the weights Spades 1, Diamonds 2,
\* Hearts 3, Clubs 4 (Card(2,Clubs) has value 8, Card(2,Spades) has value 2);
\* reading the value does not change the card.
C17_CardValue == []C17_Value /\ C17_ReadOnly

C17_Witness ==
    /\ Valued(Card(2, "Clubs")) /\ returned = Some(8)
    /\ operands[2] = Card(2, "Spades")

\* main with the player count 2 gets as far as its return statement: the game
\* is constructed with two players, three cards each are dealt, and neither
\* play_card_game nor show_winner can raise.
C18_GamePlayed ==
    /\ pc \in {"main", "main_play", "main_show"} => error = "none"
    /\ pc \in {"main_play", "main_show"} =>
          /\ num_players = 2 /\ Len(players) = 2
    /\ pc = "main_show" =>
          /\ Len(Hand(1)) = 3 /\ Len(Hand(2)) = 3
          /\ Len(the_deck) = 46

C18_Entry ==
    [][(pc = "main" /\ num_players' = 2) => pc' = "main_play"]_vars

C18_Success ==
    [][(pc = "main_show" /\ pc' = "main") =>
          /\ returned' = Some(0)
          /\ plays' >= 1
          /\ \E w \in {"Player 1", "Player 2"} :
                /\ winner_name' = Some(w)
                /\ stdout' = Append(stdout, w \o " wins!")]_vars

C18_Failure ==
    [][(pc = "main" /\ num_players' # 2) =>
          /\ pc' = "main"
          /\ plays' = plays /\ players' = <<>> /\ the_deck' = <<>>
          /\ stdout' = Append(stdout,
                              "Game over. Incorrect player count specified.\n\n")
          /\ returned' # Some(0)]_vars

StandardCards ==
    {Card(r, s) : r \in 2..14, s \in {"Spades", "Diamonds", "Hearts", "Clubs"}}

\* C19: during one play_card_game() on a freshly constructed game, at every
\* step of dealing, the cards left in the deck together with the cards in the
\* two hands are exactly the 52 distinct cards of a standard deck, each in
\* exactly one place: none lost, duplicated or held by both players.
C19_CardConservation ==
    (plays = 1 /\ PlayersIntact) =>
        LET everywhere == the_deck \o Hand(1) \o Hand(2)
        IN  /\ Len(everywhere) = 52
            /\ CardSet(everywhere) = StandardCards
            /\ CardSet(Hand(1)) \cap CardSet(Hand(2)) = {}
            /\ CardSet(the_deck) \cap (CardSet(Hand(1)) \cup CardSet(Hand(2))) = {}

C19_Witness ==
    /\ plays = 1 /\ PlayersIntact /\ pc = "dealing"
    /\ Len(Hand(1)) = 14 /\ Len(Hand(2)) = 13 /\ Len(the_deck) = 25

\* How often card c occurs in the list s.
Occurrences(c, s) == Cardinality({i \in 1..Len(s) : s[i] = c})

\* A game play_card_game() has returned to, with no show_winner() so far.
PlayedInARow == pc = "ready" /\ PlayersIntact /\ cards_per_player <= 26

C20_HandsAccumulate ==
    PlayedInARow =>
        /\ \A i \in 1..2 :
              /\ Len(Hand(i)) = plays * cards_per_player
              /\ players[i].player_score = HandValue(Hand(i), 1, Len(Hand(i)))
        /\ cards_per_player = 26 =>
              \A c \in StandardCards : Occurrences(c, Hand(1) \o Hand(2)) = plays

C20_NewDeckEachPlay ==
    [][PlayBegin => /\ players' = players
                    /\ Len(the_deck') = 52
                    /\ CardSet(the_deck') = StandardCards]_vars

\* C20: play_card_game() never clears the hands or scores and always builds a
\* new 52-card deck: n calls in a row on one game (cards_per_player <= 26, no
\* show_winner in between) leave each player with n * cards_per_player cards
\* and a score summed over all n deals, so from the second call on a hand can
\* hold the same (rank, suit) more than once.
C20_RepeatedPlay == []C20_HandsAccumulate /\ C20_NewDeckEachPlay

C20_Witness ==
    /\ PlayedInARow /\ plays = 2 /\ cards_per_player = 3
    /\ Len(Hand(1)) = 6
    /\ \E i, j \in 1..6 : i < j /\ Hand(1)[i] = Hand(1)[j]

=============================================================================
